---- MODULE Spec2Model ----
(***************************************************************************)
(* Model of the mvpfx trading core: the majority-vote signal combiner      *)
(* (strategy.py: resolve_tie, generate_signals) and the single-position    *)
(* backtest simulator (backtest.py: run_backtest).                         *)
(*                                                                         *)
(* Prices are integers (ticks).  Scores are integers in units of           *)
(* 1/ScoreOne.  np.nan and None are the sentinels NaN and None; every      *)
(* comparison with NaN is false, as in IEEE arithmetic.                    *)
(***************************************************************************)
EXTENDS Integers, Sequences, FiniteSets, TLC

\* ------------------------------------------------------------------ bounds
MaxBars == 3
MaxUnits == 2

\* --------------------------------------------------------------- constants
NaN == -1
None == -2
Capital == 10000
AtrSlMultNum == 3
AtrSlMultDen == 2
AtrTpMult == 2

\* Scores are counted in units of 1/ScoreOne, a common multiple of every
\* denominator the code divides by (4, 5, 6 sub-conditions; means over 1..4
\* strategies; adx / 100).
ScoreOne == 60 * 12
AdxThresholdDefault == 25
MomentumThresholdDefault == 0
\* cfg["risk"]["risk_pct"] as loaded (0.75 %), in hundredths of a percent
RiskPctLoaded == 75
MaxRaising == 1
\* the most equity points run_backtest_for_api is handed
MaxHistory == 250
\* the divisor of the equity curve's step
MaxPoints == 100
\* the most requests get_backtest serves in a run of the server
MaxRequests == 3

\* The bars a frame may hold: close and atr, in ticks.  ATR is an EMA of
\* true ranges and is positive on every bar that carries a vote; its values
\* are even so that 1.5 * atr is a whole number of ticks.
Closes == {100, 104}
Atrs == {2, 4}
Signals == {-1, 0, 1}

\* cfg["execution"]: simulate_spread and simulate_slippage, in ticks
Executions ==
    { [simulate_spread |-> 0, simulate_slippage |-> 0],
      [simulate_spread |-> 2, simulate_slippage |-> 2] }

VARIABLES
    ex,             \* cfg["execution"]
    bar,            \* number of rows of df consumed by the loop
    row,            \* the row the loop body last ran on
    position, units, entry, entry_time, current_sl, current_tp,
    equity, trade_history, trade_counter, equity_history,
    guard,          \* what enforce_daily_limits answered on the last bar
    pc,             \* "loop" | "done"
    stats,          \* the BacktestStats of the run, None until computed
    st,             \* cfg["strategy"], as generate_signals reads it
    raises,         \* the strategies whose evaluation raises in this run
    votes,          \* what each evaluated strategy returns on the bar
    ind,            \* the indicator columns of the bar
    out,            \* the row of the frame generate_signals returns
    locals,         \* generate_signals' locals for the bar at its return
    frame,          \* where df comes from: "generated" | "raw"
    api,            \* the bar of the response of get_signals
    total_points,   \* len(result.equity_history) in run_backtest_for_api
    equity_simplified,  \* the indices run_backtest_for_api keeps
    cfg,            \* api.py's module-level cfg: its "risk" dictionary
    response        \* what the last get_backtest request ran with

vars == << ex, bar, row, position, units, entry, entry_time, current_sl,
           current_tp, equity, trade_history, trade_counter, equity_history,
           guard, pc, stats, st, raises, votes, ind, out, locals, frame,
           api, total_points, equity_simplified, cfg, response >>

btvars == << ex, bar, row, position, units, entry, entry_time, current_sl,
             current_tp, equity, trade_history, trade_counter,
             equity_history, guard, pc, stats, frame >>
sgvars == << st, raises, votes, ind, out, locals >>
apivars == << api, total_points, equity_simplified, cfg, response >>

\* ------------------------------------------------- generate_signals: SL/TP
SlDist(atr) == (AtrSlMultNum * atr) \div AtrSlMultDen
TpDist(atr) == AtrTpMult * atr

ComputeSLAlwaysBelow(signal, close, atr) ==
    IF signal # 0 THEN close - SlDist(atr) ELSE NaN

ComputeSL(signal, close, atr) ==
    IF signal = -1 THEN close + SlDist(atr)
    ELSE IF signal = 1 THEN close - SlDist(atr)
    ELSE NaN

ComputeTP(signal, close, atr) ==
    IF signal = -1 THEN close - TpDist(atr)
    ELSE IF signal = 1 THEN close + TpDist(atr)
    ELSE NaN

\* One row of the frame generate_signals returns, as run_backtest reads it.
OutRow(signal, close, atr) ==
    [ close |-> close, atr |-> atr, signal |-> signal,
      sl |-> ComputeSL(signal, close, atr),
      tp |-> ComputeTP(signal, close, atr) ]

Rows == { OutRow(s, c, a) : s \in Signals, c \in Closes, a \in Atrs }

\* Rows of a frame that did not go through generate_signals: a non-zero
\* signal whose sl, tp or both are NaN
MalformedRows ==
    { [ OutRow(1, 100, 2) EXCEPT !.sl = NaN ],
      [ OutRow(1, 100, 2) EXCEPT !.tp = NaN ],
      [ OutRow(-1, 100, 2) EXCEPT !.sl = NaN, !.tp = NaN ] }

\* The rows df may hold, by where the caller of run_backtest got it from
RowsOf(fr) == IF fr = "raw" THEN Rows \cup MalformedRows ELSE Rows


\* ------------------------------------------------------------- strategies
B(x) == IF x THEN 1 ELSE 0

\* pd.Series(0).mask(cond_long, 1).mask(cond_short, -1)
MaskSignal(cond_long, cond_short) ==
    IF cond_short THEN -1 ELSE IF cond_long THEN 1 ELSE 0

\* pd.Series(0.0).mask(signal == 1, long_score).mask(signal == -1, short_score)
MaskScoreUnmasked(signal, long_score, short_score) ==
    IF signal = -1 THEN short_score ELSE long_score

MaskScore(signal, long_score, short_score) ==
    IF signal = -1 THEN short_score ELSE IF signal = 1 THEN long_score ELSE 0

Vote(signal, score) == [ signal |-> signal, score |-> score ]

strategy_ema_crossover(c) ==
    LET cond_long  == c.long_cross /\ c.rsi_ok_long /\ c.macd_ok_long
                      /\ c.filt_vol /\ c.reg
        cond_short == c.short_cross /\ c.rsi_ok_short /\ c.macd_ok_short
                      /\ c.filt_vol /\ c.reg
        long_score == ((B(c.long_cross) + B(c.rsi_ok_long) + B(c.macd_ok_long)
                        + B(c.filt_vol) + B(c.reg)) * ScoreOne) \div 5
        short_score == ((B(c.short_cross) + B(c.rsi_ok_short)
                         + B(c.macd_ok_short) + B(c.filt_vol) + B(c.reg))
                        * ScoreOne) \div 5
        signal == MaskSignal(cond_long, cond_short)
    IN  Vote(signal, MaskScore(signal, long_score, short_score))

strategy_rsi_reversal(c) ==
    LET cond_long  == (c.rsi_oversold_exit
                       \/ (c.stoch_oversold /\ c.stoch_cross_up))
                      /\ c.wr_oversold /\ c.adx_filter
        cond_short == (c.rsi_overbought_exit
                       \/ (c.stoch_overbought /\ c.stoch_cross_down))
                      /\ c.wr_overbought /\ c.adx_filter
        long_score == ((B(c.rsi_oversold_exit) + B(c.stoch_cross_up)
                        + B(c.wr_oversold) + B(c.adx_filter)) * ScoreOne) \div 4
        short_score == ((B(c.rsi_overbought_exit) + B(c.stoch_cross_down)
                         + B(c.wr_overbought) + B(c.adx_filter)) * ScoreOne)
                       \div 4
        signal == MaskSignal(cond_long, cond_short)
    IN  Vote(signal, MaskScore(signal, long_score, short_score))

strategy_macd_crossover(c) ==
    LET cond_long  == c.macd_cross_up /\ c.hist_increasing
                      /\ (c.cci_bullish \/ c.mom_positive) /\ c.adx_trending
        cond_short == c.macd_cross_down /\ c.hist_decreasing
                      /\ (c.cci_bearish \/ c.mom_negative) /\ c.adx_trending
        long_score == ((B(c.macd_cross_up) + B(c.hist_increasing)
                        + B(c.cci_bullish) + B(c.mom_positive)
                        + B(c.roc_positive) + B(c.adx_trending)) * ScoreOne)
                      \div 6
        short_score == ((B(c.macd_cross_down) + B(c.hist_decreasing)
                         + B(c.cci_bearish) + B(c.mom_negative)
                         + B(c.roc_negative) + B(c.adx_trending)) * ScoreOne)
                       \div 6
        signal == MaskSignal(cond_long, cond_short)
    IN  Vote(signal, MaskScore(signal, long_score, short_score))

strategy_bollinger_breakout(c) ==
    LET cond_long  == (c.bb_upper_break \/ c.above_upper) /\ c.strong_trend
                      /\ c.bullish_di /\ c.mom_confirms_long
        cond_short == (c.bb_lower_break \/ c.below_lower) /\ c.strong_trend
                      /\ c.bearish_di /\ c.mom_confirms_short
        long_score == ((B(c.bb_upper_break) + B(c.strong_trend)
                        + B(c.bullish_di) + B(c.mom_confirms_long)
                        + B(c.significant_move)) * ScoreOne) \div 5
        short_score == ((B(c.bb_lower_break) + B(c.strong_trend)
                         + B(c.bearish_di) + B(c.mom_confirms_short)
                         + B(c.significant_move)) * ScoreOne) \div 5
        signal == MaskSignal(cond_long, cond_short)
    IN  Vote(signal, MaskScore(signal, long_score, short_score))

\* The sub-conditions a bar can show.  Excluded are only the combinations
\* no bar has: a > b with a < b (an up and a down cross of the same pair,
\* a rising and a falling histogram, ...), and a band break without the
\* close being beyond the band.
EmaConditions ==
    { c \in [ long_cross : BOOLEAN, short_cross : BOOLEAN,
              rsi_ok_long : BOOLEAN, rsi_ok_short : BOOLEAN,
              macd_ok_long : BOOLEAN, macd_ok_short : BOOLEAN,
              filt_vol : BOOLEAN, reg : BOOLEAN ] :
        ~(c.long_cross /\ c.short_cross) }

RsiConditions ==
    { c \in [ rsi_oversold_exit : BOOLEAN, rsi_overbought_exit : BOOLEAN,
              stoch_oversold : BOOLEAN, stoch_overbought : BOOLEAN,
              stoch_cross_up : BOOLEAN, stoch_cross_down : BOOLEAN,
              wr_oversold : BOOLEAN, wr_overbought : BOOLEAN,
              adx_filter : BOOLEAN ] :
        ~(c.stoch_cross_up /\ c.stoch_cross_down) }

MacdConditions ==
    { c \in [ macd_cross_up : BOOLEAN, macd_cross_down : BOOLEAN,
              hist_increasing : BOOLEAN, hist_decreasing : BOOLEAN,
              cci_bullish : BOOLEAN, cci_bearish : BOOLEAN,
              mom_positive : BOOLEAN, mom_negative : BOOLEAN,
              roc_positive : BOOLEAN, roc_negative : BOOLEAN,
              adx_trending : BOOLEAN ] :
        /\ ~(c.macd_cross_up /\ c.macd_cross_down)
        /\ ~(c.hist_increasing /\ c.hist_decreasing)
        /\ ~(c.mom_positive /\ c.mom_negative) }

BollingerConditions ==
    { c \in [ bb_upper_break : BOOLEAN, bb_lower_break : BOOLEAN,
              above_upper : BOOLEAN, below_lower : BOOLEAN,
              strong_trend : BOOLEAN, bullish_di : BOOLEAN,
              bearish_di : BOOLEAN, mom_confirms_long : BOOLEAN,
              mom_confirms_short : BOOLEAN, significant_move : BOOLEAN ] :
        /\ (c.bb_upper_break => c.above_upper)
        /\ (c.bb_lower_break => c.below_lower)
        /\ ~(c.above_upper /\ c.below_lower)
        /\ ~(c.bullish_di /\ c.bearish_di) }

\* What each strategy can return on a bar
EmaVotes == { strategy_ema_crossover(c) : c \in EmaConditions }
RsiVotes == { strategy_rsi_reversal(c) : c \in RsiConditions }
MacdVotes == { strategy_macd_crossover(c) : c \in MacdConditions }
BollingerVotes == { strategy_bollinger_breakout(c) : c \in BollingerConditions }

\* STRATEGIES, in the dict's order
STRATEGIES ==
    << "ema_crossover", "rsi_reversal", "macd_crossover", "bollinger_breakout" >>

Registered == { STRATEGIES[i] : i \in DOMAIN STRATEGIES }

VotesOf(name) ==
    CASE name = "ema_crossover" -> EmaVotes
      [] name = "rsi_reversal" -> RsiVotes
      [] name = "macd_crossover" -> MacdVotes
      [] name = "bollinger_breakout" -> BollingerVotes

STRATEGY_PRIORITY_AsRegistered(name) ==
    CASE name = "ema_crossover" -> 4
      [] name = "rsi_reversal" -> 3
      [] name = "macd_crossover" -> 2
      [] name = "bollinger_breakout" -> 1
      [] OTHER -> 0

STRATEGY_PRIORITY(name) ==
    CASE name = "ema_crossover" -> 4
      [] name = "macd_crossover" -> 3
      [] name = "bollinger_breakout" -> 2
      [] name = "rsi_reversal" -> 1
      [] OTHER -> 0


\* ------------------------------------------------- resolve_tie, per bar
RECURSIVE SumScores(_, _, _, _)
\* sum over the first n strategies of scr.where(sig == side, 0)
SumScores(names, v, side, n) ==
    IF n = 0 THEN 0
    ELSE SumScores(names, v, side, n - 1)
         + (IF v[names[n]].signal = side THEN v[names[n]].score ELSE 0)

RECURSIVE CountVotes(_, _, _, _)
\* (combined_signals == side).sum(axis=1) over the first n strategies
CountVotes(names, v, side, n) ==
    IF n = 0 THEN 0
    ELSE CountVotes(names, v, side, n - 1)
         + (IF v[names[n]].signal = side THEN 1 ELSE 0)

RECURSIVE PriorityScan(_, _, _, _)
\* the loop over signals_dict.items() of the "priority" method, after the
\* first n strategies: best_priority, best_signal, best_score
PriorityScan(names, v, n, prio) ==
    IF n = 0 THEN [ best_priority |-> -1, best_signal |-> 0, best_score |-> 0 ]
    ELSE LET b == PriorityScan(names, v, n - 1, prio)
             x == v[names[n]]
         IN  IF x.signal # 0 /\ prio[names[n]] > b.best_priority
             THEN [ best_priority |-> prio[names[n]],
                    best_signal |-> x.signal, best_score |-> x.score ]
             ELSE b

Abs(x) == IF x < 0 THEN -x ELSE x
Clip01(x) == IF x < 0 THEN 0 ELSE IF x > ScoreOne THEN ScoreOne ELSE x

\* tie_method == "score": the side with the larger mean of
\* scr.where(sig == side, 0) over all the strategies
TieByScoreOfVoters(names, v) ==
    LET n         == Len(names)
        k         == CountVotes(names, v, 1, n)
        avg_long  == IF k = 0 THEN 0 ELSE SumScores(names, v, 1, n) \div k
        avg_short == IF k = 0 THEN 0 ELSE SumScores(names, v, -1, n) \div k
        signal    == IF avg_short > avg_long THEN -1
                     ELSE IF avg_long > avg_short THEN 1 ELSE 0
    IN  Vote(signal, MaskScore(signal, avg_long, avg_short))

TieByScore(names, v) ==
    LET n         == Len(names)
        avg_long  == SumScores(names, v, 1, n) \div n
        avg_short == SumScores(names, v, -1, n) \div n
        signal    == IF avg_short > avg_long THEN -1
                     ELSE IF avg_long > avg_short THEN 1 ELSE 0
    IN  Vote(signal, MaskScore(signal, avg_long, avg_short))

\* tie_method == "priority"
TieByPriority(names, v) ==
    LET b == PriorityScan(names, v, Len(names),
                          [ k \in Registered |-> STRATEGY_PRIORITY(k) ])
    IN  Vote(b.best_signal, b.best_score)

TieByAdxTrendAtThreshold(i) ==
    LET strong_trend  == i.adx >= AdxThresholdDefault
        bullish_trend == i.plus_di > i.minus_di
        bearish_trend == i.minus_di > i.plus_di
        signal == MaskSignal(strong_trend /\ bullish_trend,
                             strong_trend /\ bearish_trend)
    IN  Vote(signal, IF signal # 0 THEN (i.adx * ScoreOne) \div 100 ELSE 0)

\* tie_method == "adx_trend"
TieByAdxTrend(i) ==
    LET strong_trend  == i.adx > AdxThresholdDefault
        bullish_trend == i.plus_di > i.minus_di
        bearish_trend == i.minus_di > i.plus_di
        signal == MaskSignal(strong_trend /\ bullish_trend,
                             strong_trend /\ bearish_trend)
    IN  Vote(signal, IF signal # 0 THEN (i.adx * ScoreOne) \div 100 ELSE 0)

\* tie_method == "momentum"
TieByMomentum(i) ==
    LET signal == MaskSignal(i.momentum > MomentumThresholdDefault,
                             i.momentum < -MomentumThresholdDefault)
    IN  Vote(signal,
             IF signal # 0
             THEN Clip01((Abs(i.momentum) * ScoreOne) \div i.close)
             ELSE 0)

TieConservativeAsScore(names, v) == TieByScore(names, v)

\* tie_method == "conservative", and any method resolve_tie has no branch
\* for: signal and score stay as initialised
TieConservative(names, v) == Vote(0, 0)

\* resolve_tie on one bar of tie_mask: (signal, score)
resolve_tie(i, names, v, tie_method) ==
    CASE tie_method = "score" -> TieByScore(names, v)
      [] tie_method = "priority" -> TieByPriority(names, v)
      [] tie_method = "adx_trend" -> TieByAdxTrend(i)
      [] tie_method = "momentum" -> TieByMomentum(i)
      [] OTHER -> TieConservative(names, v)

\* ---------------------------------------------- generate_signals, per bar
\* The strategies the loop over enabled_strategies appends to signals_list:
\* registered, and evaluated without raising.
StrategyNames(s, rs) ==
    SelectSeq(s.enabled_strategies, LAMBDA k : k \in Registered /\ k \notin rs)

MinVotesHalf(s, n_strategies) ==
    IF s.min_strategy_votes # None THEN s.min_strategy_votes
    ELSE IF n_strategies \div 2 > 1 THEN n_strategies \div 2 ELSE 1

\* st.get("min_strategy_votes", max(1, n_strategies // 2 + 1))
MinVotes(s, n_strategies) ==
    IF s.min_strategy_votes # None THEN s.min_strategy_votes
    ELSE IF n_strategies \div 2 + 1 > 1 THEN n_strategies \div 2 + 1 ELSE 1

ClearLongNoThreshold(long_votes, short_votes, min_votes) ==
    long_votes > short_votes
ClearLong(long_votes, short_votes, min_votes) ==
    long_votes >= min_votes /\ long_votes > short_votes
ClearShort(long_votes, short_votes, min_votes) ==
    short_votes >= min_votes /\ short_votes > long_votes
TieCondition(long_votes, short_votes) ==
    long_votes = short_votes /\ long_votes >= 1

MeanAgreeingOverAll(names, v, side) ==
    SumScores(names, v, side, Len(names)) \div Len(names)

\* np.mean of the scores of the strategies that voted `side`
MeanAgreeing(names, v, side) ==
    LET k == CountVotes(names, v, side, Len(names))
    IN  IF k = 0 THEN 0 ELSE SumScores(names, v, side, Len(names)) \div k

\* The voting branch (combine_strategies) with at least one strategy.
Combine(s, names, v, i) ==
    LET n_strategies  == Len(names)
        long_votes    == CountVotes(names, v, 1, n_strategies)
        short_votes   == CountVotes(names, v, -1, n_strategies)
        neutral_votes == CountVotes(names, v, 0, n_strategies)
        min_votes     == MinVotes(s, n_strategies)
        clear_long    == ClearLong(long_votes, short_votes, min_votes)
        clear_short   == ClearShort(long_votes, short_votes, min_votes)
        tie_condition == TieCondition(long_votes, short_votes)
        tie           == resolve_tie(i, names, v, s.tie_break_method)
        signal        == IF tie_condition THEN tie.signal
                         ELSE MaskSignal(clear_long, clear_short)
        score         == IF tie_condition THEN tie.score
                         ELSE IF signal = 1 THEN MeanAgreeing(names, v, 1)
                         ELSE IF signal = -1 THEN MeanAgreeing(names, v, -1)
                         ELSE 0
    IN  [ signal |-> signal, score |-> score, has_votes |-> TRUE,
          long_votes |-> long_votes, short_votes |-> short_votes,
          neutral_votes |-> neutral_votes, n_strategies |-> n_strategies,
          min_votes |-> min_votes, is_tie |-> B(tie_condition),
          tie_signal |-> IF tie_condition THEN tie.signal ELSE 0,
          tie_score |-> IF tie_condition THEN tie.score ELSE 0 ]

NoVotes(signal, score, n) ==
    [ signal |-> signal, score |-> score, has_votes |-> FALSE,
      long_votes |-> None, short_votes |-> None, neutral_votes |-> None,
      n_strategies |-> n, min_votes |-> None, is_tie |-> None,
      tie_signal |-> 0, tie_score |-> 0 ]

\* The strategy the single-strategy branch runs
SingleStrategy(s) ==
    IF s.active_strategy \in Registered THEN s.active_strategy
    ELSE "ema_crossover"

\* The strategies whose vote generate_signals reads on the bar
EvaluatedNames(s, rs) ==
    IF s.combine_strategies
    THEN { k \in Registered :
             /\ \E j \in DOMAIN s.enabled_strategies : s.enabled_strategies[j] = k
             /\ k \notin rs }
    ELSE { SingleStrategy(s) }

\* generate_signals on one bar: signal and score before SL/TP, and the locals
Decide(s, rs, v, i) ==
    IF s.combine_strategies
    THEN LET names == StrategyNames(s, rs)
         IN  IF Len(names) = 0 THEN NoVotes(0, 0, 0)
             ELSE Combine(s, names, v, i)
    ELSE LET x == v[SingleStrategy(s)]
         IN  NoVotes(x.signal, x.score, 0)

\* The row of `out` for the bar
OutputRow(s, d, i) ==
    [ close |-> i.close, atr |-> i.atr, signal |-> d.signal,
      score |-> Clip01(d.score),
      sl |-> ComputeSL(d.signal, i.close, i.atr),
      tp |-> ComputeTP(d.signal, i.close, i.atr),
      strategy |-> IF s.combine_strategies THEN "combined"
                   ELSE s.active_strategy,
      has_votes |-> d.has_votes,
      long_votes |-> d.long_votes, short_votes |-> d.short_votes,
      is_tie |-> d.is_tie ]

\* ---------------------------------------------------- inputs of the model
TieMethods == { "score", "priority", "adx_trend", "momentum", "conservative" }

EnabledLists ==
    { STRATEGIES,
      << "rsi_reversal", "ema_crossover" >>,
      << "ema_crossover", "rsi_reversal" >>,
      << "bollinger_breakout", "macd_crossover", "ema_crossover" >>,
      << "rsi_reversal", "unknown_strategy", "macd_crossover" >>,
      << "unknown_strategy" >> }

Configs ==
    { [ combine_strategies |-> TRUE, active_strategy |-> "ema_crossover",
        enabled_strategies |-> e, min_strategy_votes |-> m,
        tie_break_method |-> t ] :
        e \in EnabledLists, m \in {None, 1, 2}, t \in TieMethods }
    \cup
    { [ combine_strategies |-> FALSE, active_strategy |-> a,
        enabled_strategies |-> STRATEGIES, min_strategy_votes |-> None,
        tie_break_method |-> "score" ] :
        a \in Registered \cup {"unknown_strategy"} }
    \cup
    { [ combine_strategies |-> TRUE, active_strategy |-> "ema_crossover",
        enabled_strategies |-> STRATEGIES, min_strategy_votes |-> None,
        tie_break_method |-> "unknown_method" ] }

\* The indicator columns of a bar, in ticks and index points: ADX above, at
\* and below the default threshold with +DI above, below and equal to -DI;
\* momentum on both sides of zero, at zero, and larger than the close.
IndicatorRows ==
    { [ close |-> 100, atr |-> 2, adx |-> 30, plus_di |-> 30, minus_di |-> 20, momentum |-> 50 ],
      [ close |-> 100, atr |-> 4, adx |-> 30, plus_di |-> 20, minus_di |-> 30, momentum |-> -150 ],
      [ close |-> 104, atr |-> 2, adx |-> 30, plus_di |-> 25, minus_di |-> 25, momentum |-> 0 ],
      [ close |-> 100, atr |-> 4, adx |-> 25, plus_di |-> 30, minus_di |-> 20, momentum |-> -50 ],
      [ close |-> 100, atr |-> 2, adx |-> 20, plus_di |-> 20, minus_di |-> 30, momentum |-> 150 ],
      [ close |-> 104, atr |-> 4, adx |-> 20, plus_di |-> 25, minus_di |-> 25, momentum |-> 0 ] }

\* Which strategies raise in a run: at most MaxRaising of the enabled ones
RaisingSets(s) ==
    IF s.combine_strategies
    THEN { rs \in SUBSET Registered :
             /\ Cardinality(rs) <= MaxRaising
             /\ \A k \in rs : \E j \in DOMAIN s.enabled_strategies :
                                 s.enabled_strategies[j] = k }
    ELSE { {} }

AllVotes == EmaVotes \cup RsiVotes \cup MacdVotes \cup BollingerVotes

VoteFunctions(names) ==
    { f \in [ names -> AllVotes ] : \A k \in names : f[k] \in VotesOf(k) }

\* ------------------------------------------------------------ run_backtest
\* IEEE comparisons: false whenever an operand is NaN
Le(a, b) == a # NaN /\ b # NaN /\ a <= b
Ge(a, b) == a # NaN /\ b # NaN /\ a >= b

AskNoSlippage(e, price) == price + e.simulate_spread \div 2
Ask(e, price) == price + e.simulate_spread \div 2 + e.simulate_slippage
Bid(e, price) == price - e.simulate_spread \div 2 - e.simulate_slippage

ExitCheckUnsetStopHits(pos, bid, ask, r) ==
    IF pos = 1 THEN
        IF r.sl = NaN \/ bid <= r.sl THEN [triggered |-> TRUE, price |-> r.sl, reason |-> "SL"]
        ELSE IF Ge(bid, r.tp) THEN [triggered |-> TRUE, price |-> r.tp, reason |-> "TP"]
        ELSE [triggered |-> FALSE, price |-> 0, reason |-> ""]
    ELSE IF pos = -1 THEN
        IF r.sl = NaN \/ ask >= r.sl THEN [triggered |-> TRUE, price |-> r.sl, reason |-> "SL"]
        ELSE IF Le(ask, r.tp) THEN [triggered |-> TRUE, price |-> r.tp, reason |-> "TP"]
        ELSE [triggered |-> FALSE, price |-> 0, reason |-> ""]
    ELSE [triggered |-> FALSE, price |-> 0, reason |-> ""]

\* The exit check of the loop body: which level, if any, the bar hits.
ExitCheck(pos, bid, ask, r) ==
    IF pos = 1 THEN
        IF Le(bid, r.sl) THEN [triggered |-> TRUE, price |-> r.sl, reason |-> "SL"]
        ELSE IF Ge(bid, r.tp) THEN [triggered |-> TRUE, price |-> r.tp, reason |-> "TP"]
        ELSE [triggered |-> FALSE, price |-> 0, reason |-> ""]
    ELSE IF pos = -1 THEN
        IF Ge(ask, r.sl) THEN [triggered |-> TRUE, price |-> r.sl, reason |-> "SL"]
        ELSE IF Le(ask, r.tp) THEN [triggered |-> TRUE, price |-> r.tp, reason |-> "TP"]
        ELSE [triggered |-> FALSE, price |-> 0, reason |-> ""]
    ELSE [triggered |-> FALSE, price |-> 0, reason |-> ""]

Pnl(pos, exit_price, ent, u) ==
    IF pos = 1 THEN (exit_price - ent) * u ELSE (ent - exit_price) * u

\* A float quotient a / b (b >= 0), kept exact as a reduced fraction; a
\* positive number over zero is float('inf').
RECURSIVE GCD(_, _)
GCD(a, b) == IF b = 0 THEN a ELSE GCD(b, a % b)

Ratio(a, b) ==
    LET g == GCD(IF a < 0 THEN -a ELSE a, b)
    IN  IF g = 0 THEN [ num |-> 0, den |-> 1 ]
        ELSE [ num |-> a \div g, den |-> b \div g ]

Zero == Ratio(0, 1)
Inf == [ num |-> 1, den |-> 0 ]

\* (pnl / (entry * units)) * 100 if entry * units > 0 else 0.0
PnlPct(pnl, ent, u) ==
    IF ent * u > 0 THEN Ratio(pnl * 100, ent * u) ELSE Zero

MatchingTradeFirstRecord(th, counter) == IF Len(th) = 0 THEN 0 ELSE 1

\* The first record with trade_id = counter and status OPEN (0 when none)
MatchingTrade(th, counter) ==
    LET hits == { i \in DOMAIN th :
                    th[i].trade_id = counter /\ th[i].status = "OPEN" }
    IN  IF hits = {} THEN 0
        ELSE CHOOSE i \in hits : \A j \in hits : i <= j

CloseTradeNoPnl(th, counter, ts, exit_price, pnl, pnl_pct, reason) ==
    LET k == MatchingTrade(th, counter)
    IN  [ i \in DOMAIN th |->
            IF i = k
            THEN [ th[i] EXCEPT !.exit_time = ts, !.exit_price = exit_price,
                                !.pnl_pct = pnl_pct,
                                !.exit_reason = reason, !.status = "CLOSED" ]
            ELSE th[i] ]

CloseTradeLeftOpen(th, counter, ts, exit_price, pnl, pnl_pct, reason) ==
    LET k == MatchingTrade(th, counter)
    IN  [ i \in DOMAIN th |->
            IF i = k
            THEN [ th[i] EXCEPT !.exit_time = ts, !.exit_price = exit_price,
                                !.pnl = pnl, !.pnl_pct = pnl_pct,
                                !.exit_reason = reason ]
            ELSE th[i] ]

CloseTrade(th, counter, ts, exit_price, pnl, pnl_pct, reason) ==
    LET k == MatchingTrade(th, counter)
    IN  [ i \in DOMAIN th |->
            IF i = k
            THEN [ th[i] EXCEPT !.exit_time = ts, !.exit_price = exit_price,
                                !.pnl = pnl, !.pnl_pct = pnl_pct,
                                !.exit_reason = reason, !.status = "CLOSED" ]
            ELSE th[i] ]

CanEnterNoFlatCheck(pos, veto) == ~veto
CanEnter(pos, veto) == pos = 0 /\ ~veto

NextTradeIdStuck(counter) == IF counter >= 1 THEN counter ELSE counter + 1
NextTradeId(counter) == counter + 1

TradeRecord(id, side, ts, ent, u, sl, tp) ==
    [ trade_id |-> id, side |-> side, entry_time |-> ts, entry_price |-> ent,
      exit_time |-> None, exit_price |-> None, units |-> u, sl |-> sl,
      tp |-> tp, pnl |-> 0, pnl_pct |-> Zero, exit_reason |-> "None",
      status |-> "OPEN" ]

EquityPointUnstamped(ts, eq) ==
    [ timestamp |-> 0, equity |-> eq, drawdown |-> 0 ]
EquityPoint(ts, eq) == [ timestamp |-> ts, equity |-> eq, drawdown |-> 0 ]

\* position_size(equity, price, atr, cfg): the sizer of mvpfx.risk, which
\* answers with a positive number of units; the smallest and the largest
PositionSizes == {1, MaxUnits}
\* enforce_daily_limits(trade_log, capital): the guard of mvpfx.risk
GuardAnswers == {TRUE, FALSE}

InitBacktest ==
    /\ ex \in Executions
    /\ bar = 0
    /\ row = OutRow(0, 100, 2)
    /\ position = 0
    /\ units = 0
    /\ entry = NaN
    /\ entry_time = None
    /\ current_sl = NaN
    /\ current_tp = NaN
    /\ equity = Capital
    /\ trade_history = << >>
    /\ trade_counter = 0
    /\ equity_history = << >>
    /\ guard = "notcalled"
    /\ pc = "loop"
    /\ stats = None

\* Before generate_signals is called: nothing evaluated yet
IdleSignals ==
    /\ raises = {}
    /\ votes = << >>
    /\ ind = [ close |-> 100, atr |-> 2, adx |-> 25, plus_di |-> 25,
               minus_di |-> 25, momentum |-> 0 ]
    /\ locals = NoVotes(0, 0, 0)
    /\ out = [ called |-> FALSE ]

\* api.py at import: cfg = get_cfg(), and no request served yet
LoadedRisk == [ capital |-> Capital, risk_pct |-> RiskPctLoaded ]

IdleApi ==
    /\ api = [ called |-> FALSE ]
    /\ total_points = 0
    /\ equity_simplified = << >>
    /\ cfg = [ risk |-> LoadedRisk ]
    /\ response = [ served |-> 0 ]

Init ==
    /\ InitBacktest
    /\ frame = "generated"
    /\ IdleApi
    /\ st \in { c \in Configs : c.enabled_strategies = STRATEGIES
                                 /\ c.min_strategy_votes = None
                                 /\ c.tie_break_method = "score"
                                 /\ c.combine_strategies }
    /\ IdleSignals

\* One iteration of `for ts, row in df.iterrows()`.
ProcessBar ==
    /\ pc = "loop"
    /\ bar < MaxBars
    /\ \E r \in RowsOf(frame) :
        LET ts    == bar + 1
            ask   == Ask(ex, r.close)
            bid   == Bid(ex, r.close)
            x     == ExitCheck(position, bid, ask, r)
            pnl   == Pnl(position, x.price, entry, units)
            pct   == PnlPct(pnl, entry, units)
            eq1   == IF x.triggered THEN equity + pnl ELSE equity
            th1   == IF x.triggered
                     THEN CloseTrade(trade_history, trade_counter, ts,
                                     x.price, pnl, pct, x.reason)
                     ELSE trade_history
            pos1  == IF x.triggered THEN 0 ELSE position
            u1    == IF x.triggered THEN 0 ELSE units
        IN  \E veto \in (IF pos1 = 0 THEN GuardAnswers ELSE {FALSE}) :
            LET opens == CanEnter(pos1, veto) /\ r.signal # 0
            IN  \E u \in (IF opens THEN PositionSizes ELSE {u1}) :
                LET id  == NextTradeId(trade_counter)
                    ent == IF r.signal = 1 THEN ask ELSE bid
                IN  /\ row' = r
                    /\ bar' = ts
                    /\ guard' = IF pos1 # 0 THEN "notcalled"
                                ELSE IF veto THEN "veto" ELSE "allow"
                    /\ equity' = eq1
                    /\ IF opens
                       THEN /\ trade_counter' = id
                            /\ units' = u
                            /\ entry' = ent
                            /\ entry_time' = ts
                            /\ current_sl' = r.sl
                            /\ current_tp' = r.tp
                            /\ position' = r.signal
                            /\ trade_history' = Append(th1,
                                 TradeRecord(id,
                                     IF r.signal = 1 THEN "LONG" ELSE "SHORT",
                                     ts, ent, u, r.sl, r.tp))
                       ELSE /\ trade_counter' = trade_counter
                            /\ units' = u1
                            /\ position' = pos1
                            /\ trade_history' = th1
                            /\ UNCHANGED << entry, entry_time, current_sl,
                                            current_tp >>
                    /\ equity_history' = Append(equity_history,
                                                EquityPoint(ts, eq1))
                    /\ UNCHANGED << ex, pc, stats, frame >>
                    /\ UNCHANGED sgvars
                    /\ UNCHANGED apivars

RunningMaxInitialOnly(eh, n) == Capital

\* Running maximum of the first n equity points, starting from the capital
RECURSIVE RunningMax(_, _)
RunningMax(eh, n) ==
    IF n = 0 THEN Capital
    ELSE LET m == RunningMax(eh, n - 1)
         IN  IF eh[n].equity > m THEN eh[n].equity ELSE m

\* ------------------------------------------------- compute_detailed_stats
ClosedTradesAnyStatus(th) == th

\* closed_trades = [t for t in trade_history if t.status == "CLOSED"]
ClosedTrades(th) == SelectSeq(th, LAMBDA t : t.status = "CLOSED")

RECURSIVE SumSeq(_, _)
\* sum of the first n elements
SumSeq(q, n) == IF n = 0 THEN 0 ELSE SumSeq(q, n - 1) + q[n]

RECURSIVE MaxSeq(_, _)
MaxSeq(q, n) ==
    IF n = 1 THEN q[1]
    ELSE LET m == MaxSeq(q, n - 1) IN IF q[n] > m THEN q[n] ELSE m

RECURSIVE MinSeq(_, _)
MinSeq(q, n) ==
    IF n = 1 THEN q[1]
    ELSE LET m == MinSeq(q, n - 1) IN IF q[n] < m THEN q[n] ELSE m

ProfitFactorNoSentinel(gross_profit, gross_loss) ==
    IF gross_loss > 0 THEN Ratio(gross_profit, gross_loss) ELSE Zero

\* gross_profit / gross_loss if gross_loss > 0
\*   else float('inf') if gross_profit > 0 else 0.0
ProfitFactor(gross_profit, gross_loss) ==
    IF gross_loss > 0 THEN Ratio(gross_profit, gross_loss)
    ELSE IF gross_profit > 0 THEN Inf
    ELSE Zero

\* eq is the equity curve: one value per bar
compute_detailed_stats(th, eq, initial_capital) ==
    LET closed_trades == ClosedTrades(th)
    IN  IF Len(closed_trades) = 0
        THEN [ total_trades |-> 0, winning_trades |-> 0, losing_trades |-> 0,
               win_rate |-> Zero, total_pnl |-> 0, best_trade |-> 0,
               worst_trade |-> 0, profit_factor |-> Zero, max_drawdown |-> 0,
               initial_capital |-> initial_capital,
               final_equity |-> initial_capital ]
        ELSE
          LET pnls   == [ k \in DOMAIN closed_trades |-> closed_trades[k].pnl ]
              wins   == SelectSeq(pnls, LAMBDA x : x > 0)
              losses == SelectSeq(pnls, LAMBDA x : x < 0)
              total_pnl    == SumSeq(pnls, Len(pnls))
              gross_profit == IF Len(wins) > 0 THEN SumSeq(wins, Len(wins))
                              ELSE 0
              gross_loss   == IF Len(losses) > 0
                              THEN Abs(SumSeq(losses, Len(losses))) ELSE 0
              final_equity == IF Len(eq) > 0 THEN eq[Len(eq)]
                              ELSE initial_capital
              drawdown     == [ k \in DOMAIN eq |-> eq[k] - MaxSeq(eq, k) ]
              max_dd       == MinSeq(drawdown, Len(drawdown))
          IN  [ total_trades |-> Len(closed_trades),
                winning_trades |-> Len(wins),
                losing_trades |-> Len(losses),
                win_rate |-> Ratio(Len(wins) * 100, Len(closed_trades)),
                total_pnl |-> total_pnl,
                best_trade |-> MaxSeq(pnls, Len(pnls)),
                worst_trade |-> MinSeq(pnls, Len(pnls)),
                profit_factor |-> ProfitFactor(gross_profit, gross_loss),
                max_drawdown |-> max_dd,
                initial_capital |-> initial_capital,
                final_equity |-> final_equity ]

\* The post-process after the loop: the drawdown pass over equity_history,
\* then the statistics.
PostProcess ==
    /\ pc = "loop"
    /\ pc' = "done"
    /\ stats' = compute_detailed_stats(
                    trade_history,
                    [ k \in DOMAIN equity_history |-> equity_history[k].equity ],
                    Capital)
    /\ equity_history' =
         [ i \in DOMAIN equity_history |->
             [ equity_history[i] EXCEPT
                 !.drawdown = equity_history[i].equity
                              - RunningMax(equity_history, i) ] ]
    /\ UNCHANGED << ex, bar, row, position, units, entry, entry_time,
                    current_sl, current_tp, equity, trade_history,
                    trade_counter, guard, frame >>
    /\ UNCHANGED sgvars
    /\ UNCHANGED apivars

Next == ProcessBar \/ PostProcess

Spec == Init /\ [][Next]_vars

\* ------------------------------------------- the signal-generation runs
InitSignals ==
    /\ InitBacktest
    /\ frame = "generated"
    /\ IdleApi
    /\ ex = [simulate_spread |-> 0, simulate_slippage |-> 0]
    /\ st \in Configs
    /\ IdleSignals

\* One call of generate_signals(df, cfg), on a bar of df.
GenerateSignals ==
    /\ out.called = FALSE
    /\ \E rs \in RaisingSets(st), i \in IndicatorRows :
         \E v \in VoteFunctions(EvaluatedNames(st, rs)) :
            LET d == Decide(st, rs, v, i)
            IN  /\ raises' = rs
                /\ votes' = v
                /\ ind' = i
                /\ locals' = d
                /\ out' = [ called |-> TRUE ] @@ OutputRow(st, d, i)
    /\ UNCHANGED st
    /\ UNCHANGED btvars
    /\ UNCHANGED apivars

NextSignals == GenerateSignals

SpecSignals == InitSignals /\ [][NextSignals]_vars

\* ------------------------------------------------- api.py: get_signals
\* round(scr_val, 4), in units of 1/10000
Round4(score) == (2 * score * 10000 + ScoreOne) \div (2 * ScoreOne)

\* The loop over STRATEGIES.items() of get_signals: every registered
\* strategy is evaluated; one that raises is recorded as signal 0, score 0.0
ApiVote(v4, rs, k) == IF k \in rs THEN Vote(0, 0) ELSE v4[k]

\* long_count, short_count, neutral_count of a bar
ApiCount(v4, rs, side) ==
    Cardinality({ k \in Registered : ApiVote(v4, rs, k).signal = side })

\* Which of the registered strategies raise on the request's frame
ApiRaisingSets == { rs \in SUBSET Registered : Cardinality(rs) <= MaxRaising }

ApiConfigs ==
    { c \in Configs : c.min_strategy_votes = None
                      /\ c.tie_break_method = "score" }

InitApi ==
    /\ InitBacktest
    /\ ex = [simulate_spread |-> 0, simulate_slippage |-> 0]
    /\ frame = "generated"
    /\ st \in ApiConfigs
    /\ IdleSignals
    /\ IdleApi

\* One request to get_signals, on one bar of its frame.
GetSignals ==
    /\ api.called = FALSE
    /\ \E rs \in ApiRaisingSets, i \in IndicatorRows :
         \E v4 \in VoteFunctions(Registered) :
            IF ~st.combine_strategies /\ SingleStrategy(st) \in rs
            THEN \* generate_signals lets the active strategy's exception out
                 /\ api' = [ called |-> TRUE, failed |-> TRUE ]
                 /\ raises' = rs
                 /\ UNCHANGED << votes, ind, out, locals >>
            ELSE LET v == [ k \in EvaluatedNames(st, rs) |-> v4[k] ]
                     d == Decide(st, rs, v, i)
                     decisive == d.signal # 0
                 IN  /\ raises' = rs
                     /\ votes' = v
                     /\ ind' = i
                     /\ locals' = d
                     /\ out' = [ called |-> TRUE ] @@ OutputRow(st, d, i)
                     /\ api' =
                          [ called |-> TRUE, failed |-> FALSE,
                            signal |-> d.signal,
                            strategy_votes |->
                              IF decisive
                              THEN [ k \in Registered |->
                                       Vote(ApiVote(v4, rs, k).signal,
                                            Round4(ApiVote(v4, rs, k).score)) ]
                              ELSE None,
                            long_votes |->
                              IF decisive THEN ApiCount(v4, rs, 1) ELSE None,
                            short_votes |->
                              IF decisive THEN ApiCount(v4, rs, -1) ELSE None,
                            neutral_votes |->
                              IF decisive THEN ApiCount(v4, rs, 0) ELSE None ]
    /\ UNCHANGED st
    /\ UNCHANGED btvars
    /\ UNCHANGED << total_points, equity_simplified, cfg, response >>

NextApi == GetSignals

SpecApi == InitApi /\ [][NextApi]_vars

\* -------------------------------------- backtest.py: run_backtest_for_api
\* step = max(1, len(result.equity_history) // 100)
Step(n) == IF n \div MaxPoints > 1 THEN n \div MaxPoints ELSE 1

\* The indices of `for i in range(0, n, step)`, in the order of the appends
Kept(n) ==
    LET step == Step(n)
    IN  [ k \in 1..((n + step - 1) \div step) |-> (k - 1) * step ]

InitDownsample ==
    /\ InitBacktest
    /\ ex = [simulate_spread |-> 0, simulate_slippage |-> 0]
    /\ frame = "generated"
    /\ st \in { c \in ApiConfigs : c.enabled_strategies = STRATEGIES
                                    /\ c.combine_strategies }
    /\ IdleSignals
    /\ IdleApi

\* One call of run_backtest_for_api whose run recorded n equity points:
\* the simplification of the equity curve.
SimplifyEquity ==
    /\ total_points = 0
    /\ \E n \in 1..MaxHistory :
         /\ total_points' = n
         /\ equity_simplified' = Kept(n)
    /\ UNCHANGED btvars
    /\ UNCHANGED sgvars
    /\ UNCHANGED << api, cfg, response >>

NextDownsample == SimplifyEquity

SpecDownsample == InitDownsample /\ [][NextDownsample]_vars

\* ------------------------------------------------- api.py: get_backtest
\* The query parameters of a request: capital, and risk_pct in percent
CapitalParams == {None, 5000, 20000, 50000}
RiskPctParams == {None, 1, 2, 5}

\* temp_cfg = cfg.copy() is a shallow copy: temp_cfg["risk"] is the very
\* dictionary cfg["risk"] is, so the two assignments below write into cfg.
\* risk_pct / 100, in hundredths of a percent
RiskAfter(risk, capital, risk_pct) ==
    [ capital  |-> IF capital # None THEN capital ELSE risk.capital,
      risk_pct |-> IF risk_pct # None THEN risk_pct * 100 ELSE risk.risk_pct ]

InitRequests ==
    /\ InitBacktest
    /\ ex = [simulate_spread |-> 0, simulate_slippage |-> 0]
    /\ frame = "generated"
    /\ st \in { c \in ApiConfigs : c.enabled_strategies = STRATEGIES
                                    /\ c.combine_strategies }
    /\ IdleSignals
    /\ IdleApi

\* One request to get_backtest: what run_backtest_for_api is handed as
\* cfg["risk"], from which run_backtest takes initial_capital.
GetBacktest ==
    /\ response.served < MaxRequests
    /\ \E capital \in CapitalParams, risk_pct \in RiskPctParams :
         LET risk == RiskAfter(cfg.risk, capital, risk_pct)
         IN  /\ cfg' = [ cfg EXCEPT !.risk = risk ]
             /\ response' = [ served |-> response.served + 1,
                              capital |-> capital, risk_pct |-> risk_pct,
                              ran_with |-> risk ]
    /\ UNCHANGED btvars
    /\ UNCHANGED sgvars
    /\ UNCHANGED << api, total_points, equity_simplified >>

NextRequests == GetBacktest

SpecRequests == InitRequests /\ [][NextRequests]_vars

\* ------------------------- run_backtest on a frame of the caller's making
InitRaw ==
    /\ InitBacktest
    /\ frame = "raw"
    /\ st \in { c \in Configs : c.enabled_strategies = STRATEGIES
                                 /\ c.min_strategy_votes = None
                                 /\ c.tie_break_method = "score"
                                 /\ c.combine_strategies }
    /\ IdleSignals
    /\ IdleApi

SpecRaw == InitRaw /\ [][Next]_vars

\* ------------------------------------------------- claims on run_backtest
OpenTrades(th) == { i \in DOMAIN th : th[i].status = "OPEN" }

\* C1: after any prefix of the bars, trade_history holds at most one
\* TradeRecord with status OPEN.
C1_AtMostOneOpen == Cardinality(OpenTrades(trade_history)) <= 1

\* C1 witness: an OPEN record exists next to an already CLOSED one.
C1_Witness ==
    /\ Cardinality(OpenTrades(trade_history)) = 1
    /\ \E i \in DOMAIN trade_history : trade_history[i].status = "CLOSED"

\* C2: an open position is closed against the sl/tp recorded in its own
\* TradeRecord: a LONG exits at its sl (reason SL) on any later bar with
\* bid <= sl, else at its tp (reason TP) when bid >= tp; a SHORT the same
\* with ask >= sl and ask <= tp; whatever signal the later bar carries.
C2_ExitAgainstOwnStops ==
    [][ bar' = bar + 1 =>
        \A i \in OpenTrades(trade_history) :
          LET t   == trade_history[i]
              b   == row'.close - ex.simulate_spread \div 2 - ex.simulate_slippage
              a   == row'.close + ex.simulate_spread \div 2 + ex.simulate_slippage
              hitSL == IF t.side = "LONG" THEN b <= t.sl ELSE a >= t.sl
              hitTP == IF t.side = "LONG" THEN b >= t.tp ELSE a <= t.tp
              t2  == trade_history'[i]
          IN  /\ hitSL => /\ t2.status = "CLOSED"
                          /\ t2.exit_price = t.sl
                          /\ t2.exit_reason = "SL"
              /\ (~hitSL /\ hitTP) => /\ t2.status = "CLOSED"
                                      /\ t2.exit_price = t.tp
                                      /\ t2.exit_reason = "TP"
      ]_vars

RECURSIVE SumClosedPnl(_, _, _)
\* sum of pnl over the first n records that are CLOSED with exit_time <= ts
SumClosedPnl(th, n, ts) ==
    IF n = 0 THEN 0
    ELSE SumClosedPnl(th, n - 1, ts)
         + (IF th[n].status = "CLOSED" /\ th[n].exit_time <= ts
            THEN th[n].pnl ELSE 0)

\* C3: at every bar the recorded equity is the initial capital plus the sum
\* of the pnl fields of the records CLOSED at that bar, and so is the running
\* equity.
C3_EquityIsCapitalPlusClosedPnl ==
    /\ equity = Capital + SumClosedPnl(trade_history, Len(trade_history), bar)
    /\ \A i \in DOMAIN equity_history :
         equity_history[i].equity =
           Capital + SumClosedPnl(trade_history, Len(trade_history), i)

\* C3 witness: a trade closed with a non-zero pnl, then further bars recorded.
C3_Witness ==
    \E i \in DOMAIN trade_history :
        /\ trade_history[i].status = "CLOSED"
        /\ trade_history[i].pnl # 0
        /\ trade_history[i].exit_time < bar
        /\ equity # Capital

\* C9: a position is opened on a bar only when the simulator is flat at that
\* point of the bar (also when flat by an exit earlier on the same bar) and
\* the guard does not veto; LONG enters at close + spread/2 + slippage, SHORT
\* at close - spread/2 - slippage; a signal of 0, a non-flat position or a
\* veto leaves position, units, entry and trade_history as the exit step
\* left them.
C9_EntryRule ==
    [][ bar' = bar + 1 =>
        LET r       == row'
            half    == ex.simulate_spread \div 2
            closed  == { i \in OpenTrades(trade_history) :
                           trade_history'[i].status = "CLOSED" }
            flat    == position = 0 \/ closed # {}
            n       == Len(trade_history)
            opened  == Len(trade_history') = n + 1
            new     == trade_history'[n + 1]
        IN  /\ opened <=> (flat /\ guard' = "allow" /\ r.signal # 0)
            /\ Len(trade_history') \in {n, n + 1}
            /\ (opened /\ r.signal = 1) =>
                  /\ position' = 1
                  /\ entry' = r.close + half + ex.simulate_slippage
                  /\ new.side = "LONG" /\ new.entry_price = entry'
                  /\ new.status = "OPEN" /\ new.units = units'
            /\ (opened /\ r.signal = -1) =>
                  /\ position' = -1
                  /\ entry' = r.close - half - ex.simulate_slippage
                  /\ new.side = "SHORT" /\ new.entry_price = entry'
                  /\ new.status = "OPEN" /\ new.units = units'
            /\ ~opened =>
                  /\ position' = (IF closed # {} THEN 0 ELSE position)
                  /\ units' = (IF closed # {} THEN 0 ELSE units)
                  /\ entry' = entry
                  /\ \A i \in 1..n : i \notin closed =>
                        trade_history'[i] = trade_history[i]
      ]_vars

\* C9 witness: a position opened on the very bar that closed the previous
\* one, with a non-zero slippage in the entry price.
C9_Witness ==
    /\ ex.simulate_slippage > 0
    /\ Len(trade_history) >= 2
    /\ trade_history[1].exit_time = trade_history[2].entry_time
    /\ trade_history[2].side = "LONG"

\* C10: the k-th TradeRecord appended has trade_id k: ids start at 1, grow
\* by one per opened trade and are never reused.
C10_TradeIdIsOrdinal ==
    \A k \in DOMAIN trade_history : trade_history[k].trade_id = k

\* C10 witness: two trades separated by a flat period.
C10_Witness ==
    /\ Len(trade_history) >= 2
    /\ trade_history[1].exit_time # None
    /\ trade_history[1].exit_time < trade_history[2].entry_time

\* C11: every bar appends exactly one equity point, after the points of the
\* earlier bars and leaving them as they were; its value is the equity after
\* the exit processed on the bar, whether or not the bar also opens a trade.
C11_OneEquityPointPerBar ==
    [][ bar' = bar + 1 =>
        LET n        == Len(equity_history)
            realised == SumClosedPnl(trade_history', Len(trade_history'), bar')
                        - SumClosedPnl(trade_history, Len(trade_history), bar)
        IN  /\ n = bar
            /\ Len(equity_history') = n + 1
            /\ \A i \in 1..n : equity_history'[i] = equity_history[i]
            /\ equity_history'[n + 1].timestamp = bar'
            /\ \A i \in 1..n :
                  equity_history'[i].timestamp < equity_history'[n + 1].timestamp
            /\ equity_history'[n + 1].equity = equity + realised
            /\ equity_history'[n + 1].equity = equity'
      ]_vars

\* C11 witness: a bar that closed a trade with a non-zero pnl and opened the
\* next one has its single equity point, with the equity after the exit.
C11_Witness ==
    \E k \in DOMAIN trade_history, j \in DOMAIN trade_history :
        /\ trade_history[k].status = "CLOSED"
        /\ trade_history[k].pnl # 0
        /\ trade_history[j].entry_time = trade_history[k].exit_time
        /\ Len(equity_history) = bar
        /\ equity_history[trade_history[k].exit_time].equity
             # equity_history[trade_history[k].exit_time - 1].equity

ClosedSet(th) == { i \in DOMAIN th : th[i].status = "CLOSED" }

\* The steps the run has left at most: the bars not yet consumed, and the
\* post-process.
StepsLeft == (MaxBars - bar) + (IF pc = "loop" THEN 1 ELSE 0)

\* C12: the run ends after one pass over the bars: every step consumes one
\* bar or ends the run, so the steps left decrease and never go below 0, and
\* a run that has ended takes no further step.  At the end a position still open is an
\* OPEN record with exit_price null and pnl 0, equity holds the closed
\* trades' pnl only, and total_trades, winning_trades, losing_trades and
\* total_pnl of the stats count the CLOSED records only.
C12_TerminatesLeavingOpenTrades ==
    /\ [][ /\ (bar' = bar + 1 /\ pc' = "loop") \/ (bar' = bar /\ pc' = "done")
           /\ StepsLeft' < StepsLeft
           /\ StepsLeft' >= 0 ]_vars
    /\ [](pc = "done" => ~ENABLED Next)
    /\ [](pc = "done" =>
            /\ position # 0 <=> OpenTrades(trade_history) # {}
            /\ \A i \in OpenTrades(trade_history) :
                  /\ trade_history[i].exit_price = None
                  /\ trade_history[i].exit_time = None
                  /\ trade_history[i].pnl = 0
            /\ equity = Capital
                 + SumClosedPnl(trade_history, Len(trade_history), bar)
            /\ stats.final_equity = equity
            /\ stats.total_trades = Cardinality(ClosedSet(trade_history))
            /\ stats.winning_trades =
                 Cardinality({ i \in ClosedSet(trade_history) :
                                 trade_history[i].pnl > 0 })
            /\ stats.losing_trades =
                 Cardinality({ i \in ClosedSet(trade_history) :
                                 trade_history[i].pnl < 0 })
            /\ stats.total_pnl =
                 SumClosedPnl(trade_history, Len(trade_history), bar))

\* C12 witness: the run ended with a position open, after a closed trade.
C12_Witness ==
    /\ pc = "done"
    /\ position # 0
    /\ OpenTrades(trade_history) # {}
    /\ stats.total_trades >= 1
    /\ stats.total_pnl # 0

RECURSIVE PeakEquity(_, _)
\* the largest equity among the first n recorded points
PeakEquity(eh, n) ==
    IF n = 1 THEN eh[1].equity
    ELSE LET m == PeakEquity(eh, n - 1)
         IN  IF eh[n].equity > m THEN eh[n].equity ELSE m

\* C13: after the run every equity point has drawdown = its equity minus
\* the largest equity recorded at any bar up to and including it, and that
\* drawdown is <= 0.
C13_DrawdownFromRunningPeak ==
    pc = "done" =>
        \A i \in DOMAIN equity_history :
            /\ equity_history[i].drawdown =
                 equity_history[i].equity - PeakEquity(equity_history, i)
            /\ equity_history[i].drawdown <= 0

\* C13 witness: equity rose above the capital and then fell below that peak.
C13_Witness ==
    /\ pc = "done"
    /\ \E i \in DOMAIN equity_history, j \in DOMAIN equity_history :
          /\ j < i
          /\ equity_history[j].equity > Capital
          /\ equity_history[i].drawdown < 0

\* C19: a closed TradeRecord has pnl = (exit_price - entry_price) * units for
\* a LONG and (entry_price - exit_price) * units for a SHORT, and pnl_pct =
\* pnl / (entry_price * units) * 100; a trade closed with reason SL whose
\* stop is on the losing side of its entry has pnl <= 0, and one closed with
\* reason TP whose target is on the winning side has pnl >= 0.
C19_PnlOfClosedTrade ==
    \A i \in ClosedSet(trade_history) :
        LET t == trade_history[i]
            stop_ok   == IF t.side = "LONG" THEN t.sl < t.entry_price
                         ELSE t.sl > t.entry_price
            target_ok == IF t.side = "LONG" THEN t.tp > t.entry_price
                         ELSE t.tp < t.entry_price
        IN  /\ t.side = "LONG" => t.pnl = (t.exit_price - t.entry_price) * t.units
            /\ t.side = "SHORT" => t.pnl = (t.entry_price - t.exit_price) * t.units
            /\ t.pnl_pct.den > 0
            /\ t.pnl_pct.num * (t.entry_price * t.units)
                 = t.pnl * 100 * t.pnl_pct.den
            /\ (t.exit_reason = "SL" /\ stop_ok) => t.pnl <= 0
            /\ (t.exit_reason = "TP" /\ target_ok) => t.pnl >= 0

RECURSIVE SumClosedWhere(_, _, _)
\* sum over the first n records of the pnl of those CLOSED with a pnl of the
\* given sign
SumClosedWhere(th, n, sign) ==
    IF n = 0 THEN 0
    ELSE SumClosedWhere(th, n - 1, sign)
         + (IF th[n].status = "CLOSED" /\ th[n].pnl * sign > 0
            THEN th[n].pnl ELSE 0)

GrossProfit == SumClosedWhere(trade_history, Len(trade_history), 1)
GrossLoss == -SumClosedWhere(trade_history, Len(trade_history), -1)

\* C20: the stats always carry a profit_factor: gross_profit / gross_loss
\* when gross_loss > 0, the +infinity sentinel when gross_loss = 0 and
\* gross_profit > 0, and 0 when both are 0 or no trade is closed.
C20_ProfitFactor ==
    pc = "done" =>
        /\ GrossLoss > 0 =>
              /\ stats.profit_factor.den > 0
              /\ stats.profit_factor.num * GrossLoss
                   = GrossProfit * stats.profit_factor.den
        /\ (GrossLoss = 0 /\ GrossProfit > 0) => stats.profit_factor = Inf
        /\ (GrossLoss = 0 /\ GrossProfit = 0) => stats.profit_factor = Zero
        /\ ClosedSet(trade_history) = {} => stats.profit_factor = Zero

\* C20 witness: winning trades only, so the sentinel is reported.
C20_Witness ==
    /\ pc = "done"
    /\ GrossLoss = 0
    /\ GrossProfit > 0
    /\ stats.profit_factor = Inf

\* --------------------------------------------- claims on generate_signals
\* The tallies of a bar, counted from the votes the strategies returned
VotesFor(side) == Cardinality({ k \in DOMAIN votes : votes[k].signal = side })
Voted == out.called /\ st.combine_strategies /\ DOMAIN votes # {}
Threshold ==
    IF st.min_strategy_votes # None THEN st.min_strategy_votes
    ELSE Cardinality(DOMAIN votes) \div 2 + 1

\* C4: with combine_strategies on, the combined signal is LONG when
\* long_votes >= min_votes and long_votes > short_votes, SHORT when
\* short_votes >= min_votes and short_votes > long_votes; when
\* long_votes = short_votes >= 1 the bar is a tie and carries what the
\* tie-break policy returns; in every other case it is 0 with score 0.
C4_CombinerDecision ==
    (out.called /\ st.combine_strategies) =>
        LET l == VotesFor(1)
            s == VotesFor(-1)
            m == Threshold
        IN  IF DOMAIN votes = {} THEN out.signal = 0 /\ out.score = 0
            ELSE IF l >= m /\ l > s THEN out.signal = 1 /\ out.is_tie = 0
            ELSE IF s >= m /\ s > l THEN out.signal = -1 /\ out.is_tie = 0
            ELSE IF l = s /\ l >= 1
                 THEN /\ out.is_tie = 1
                      /\ out.signal =
                           resolve_tie(ind, StrategyNames(st, raises), votes,
                                       st.tie_break_method).signal
            ELSE out.signal = 0 /\ out.score = 0 /\ out.is_tie = 0

\* C4 witness: a tie bar that the policy resolved to SHORT, and whose
\* sides are below the threshold.
C4_Witness ==
    /\ Voted
    /\ VotesFor(1) = VotesFor(-1)
    /\ VotesFor(1) >= 1
    /\ VotesFor(1) < Threshold
    /\ out.signal = -1

C6_RaisingStrategyVotesNeutral ==
    (out.called /\ st.combine_strategies /\ raises # {}) =>
        LET v2 == [ k \in DOMAIN votes \cup raises |->
                      IF k \in raises THEN Vote(0, 0) ELSE votes[k] ]
            d2 == Decide(st, {}, v2, ind)
        IN  /\ out.signal = d2.signal
            /\ out.score = Clip01(d2.score)
            /\ out.long_votes = d2.long_votes
            /\ out.short_votes = d2.short_votes
            /\ locals.min_votes = d2.min_votes

\* C7: with combine_strategies on, long_votes + short_votes + neutral_votes
\* is the length of enabled_strategies on every bar, also when an enabled
\* strategy raises or is not registered.
C7_VotesSumToEnabled ==
    (out.called /\ st.combine_strategies) =>
        /\ locals.has_votes
        /\ locals.long_votes + locals.short_votes + locals.neutral_votes
             = Len(st.enabled_strategies)

\* C8: in the output of generate_signals the signal is in {-1,0,1}; sl and
\* tp are both non-null exactly when the signal is non-zero; a LONG has
\* sl < close < tp and a SHORT has tp < close < sl.
C8_StopsOnTheRightSide ==
    out.called =>
        /\ out.signal \in {-1, 0, 1}
        /\ (out.sl # NaN /\ out.tp # NaN) <=> out.signal # 0
        /\ out.signal = 0 => (out.sl = NaN /\ out.tp = NaN)
        /\ out.signal = 1 => (out.sl < out.close /\ out.close < out.tp)
        /\ out.signal = -1 => (out.tp < out.close /\ out.close < out.sl)

\* C8 witness: a SHORT decided by the vote, with its stops set.
C8_Witness ==
    /\ Voted
    /\ out.signal = -1
    /\ VotesFor(-1) > VotesFor(1)
    /\ out.sl # NaN

\* A tie bar: as many LONG as SHORT votes, and at least one of each
IsTie == Voted /\ VotesFor(1) = VotesFor(-1) /\ VotesFor(1) >= 1

\* C14: with tie_break_method "conservative" every tie bar has combined
\* signal 0 and score 0, whatever the strategies' scores and the indicators.
C14_ConservativeTieIsNeutral ==
    (IsTie /\ st.tie_break_method = "conservative") =>
        /\ out.signal = 0
        /\ out.score = 0
        /\ out.is_tie = 1

\* C14 witness: a 2 vs 2 tie with a full-score LONG vote on a bar with a
\* strong bullish trend and positive momentum.
C14_Witness ==
    /\ IsTie
    /\ st.tie_break_method = "conservative"
    /\ VotesFor(1) = 2
    /\ \E k \in DOMAIN votes : votes[k].signal = 1 /\ votes[k].score = ScoreOne
    /\ ind.adx > AdxThresholdDefault
    /\ ind.plus_di > ind.minus_di
    /\ ind.momentum > 0

\* The fixed order of the "priority" policy, highest first
PriorityOrder ==
    << "ema_crossover", "macd_crossover", "bollinger_breakout", "rsi_reversal" >>

Rank(k) == CHOOSE j \in DOMAIN PriorityOrder : PriorityOrder[j] = k

NonZeroVoters == { k \in DOMAIN votes : votes[k].signal # 0 }

HighestRanked ==
    CHOOSE k \in NonZeroVoters : \A h \in NonZeroVoters : Rank(k) <= Rank(h)

\* enabled_strategies listed in every other order
Reorderings(q) ==
    { [ j \in DOMAIN q |-> q[f[j]] ] :
        f \in { g \in [ DOMAIN q -> DOMAIN q ] :
                  \A a, b \in DOMAIN q : a # b => g[a] # g[b] } }

\* C15: with tie_break_method "priority" a tie bar carries the signal and
\* the score of the strategy ranked highest in ema_crossover >
\* macd_crossover > bollinger_breakout > rsi_reversal among those with a
\* non-zero vote, in whatever order enabled_strategies lists them.
C15_PriorityTie ==
    (IsTie /\ st.tie_break_method = "priority") =>
        /\ out.signal = votes[HighestRanked].signal
        /\ out.score = votes[HighestRanked].score
        /\ \A q \in Reorderings(st.enabled_strategies) :
              LET d == Decide([ st EXCEPT !.enabled_strategies = q ],
                              raises, votes, ind)
              IN  d.signal = out.signal /\ Clip01(d.score) = out.score

\* C15 witness: the strategy listed first voted against the highest-ranked
\* one, and the highest-ranked one decided.
C15_Witness ==
    /\ IsTie
    /\ st.tie_break_method = "priority"
    /\ st.enabled_strategies[1] \in NonZeroVoters
    /\ st.enabled_strategies[1] # HighestRanked
    /\ votes[st.enabled_strategies[1]].signal # votes[HighestRanked].signal
    /\ out.signal = votes[HighestRanked].signal

RECURSIVE SideScoreSum(_, _)
\* the sum over the strategies in S of (score if it voted side, else 0)
SideScoreSum(S, side) ==
    IF S = {} THEN 0
    ELSE LET k == CHOOSE x \in S : TRUE
         IN  (IF votes[k].signal = side THEN votes[k].score ELSE 0)
             + SideScoreSum(S \ {k}, side)

\* C16: with tie_break_method "score" a tie bar is LONG when the average
\* over all evaluated strategies of (score if LONG else 0) is greater than
\* the same average for SHORT, SHORT when it is smaller, and 0 with score 0
\* when the two are equal; a decisive bar reports the winning average.
C16_ScoreTie ==
    (IsTie /\ st.tie_break_method = "score") =>
        LET n  == Cardinality(DOMAIN votes)
            sl == SideScoreSum(DOMAIN votes, 1)
            ss == SideScoreSum(DOMAIN votes, -1)
        IN  /\ sl > ss => (out.signal = 1 /\ out.score * n = sl)
            /\ sl < ss => (out.signal = -1 /\ out.score * n = ss)
            /\ sl = ss => (out.signal = 0 /\ out.score = 0)

\* C16 witness: a tie decided for SHORT while a third strategy stayed
\* neutral, so the average is over more strategies than voted.
C16_Witness ==
    /\ IsTie
    /\ st.tie_break_method = "score"
    /\ VotesFor(0) >= 1
    /\ out.signal = -1
    /\ out.score > 0

\* C17: with tie_break_method "adx_trend" a tie bar with ADX above the
\* threshold (25) is LONG when +DI > -DI and SHORT when -DI > +DI, with score
\* ADX/100; with ADX not above the threshold it is 0 with score 0.  On a
\* bar that is not a tie the combined signal does not depend on the
\* indicators the policy reads.
C17_AdxTrendTie ==
    /\ (IsTie /\ st.tie_break_method = "adx_trend") =>
          /\ (ind.adx > AdxThresholdDefault /\ ind.plus_di > ind.minus_di) =>
                (out.signal = 1 /\ out.score * 100 = ind.adx * ScoreOne)
          /\ (ind.adx > AdxThresholdDefault /\ ind.minus_di > ind.plus_di) =>
                (out.signal = -1 /\ out.score * 100 = ind.adx * ScoreOne)
          /\ ~(ind.adx > AdxThresholdDefault) =>
                (out.signal = 0 /\ out.score = 0)
    /\ (Voted /\ ~IsTie /\ st.tie_break_method = "adx_trend") =>
          /\ out.is_tie = 0
          /\ \A i \in IndicatorRows :
                Decide(st, raises, votes, i).signal = out.signal
          /\ Decide([ st EXCEPT !.tie_break_method = "conservative" ],
                    raises, votes, ind).signal = out.signal

\* C17 witness: a tie on a bar with a strong bearish trend, resolved SHORT.
C17_Witness ==
    /\ IsTie
    /\ st.tie_break_method = "adx_trend"
    /\ ind.adx > AdxThresholdDefault
    /\ ind.minus_di > ind.plus_di
    /\ out.signal = -1
    /\ out.score > 0

\* C18: every strategy's score, and the combined score, is 0 when the signal
\* is 0 and lies in [0,1] when the signal is not 0.
C18_ScoresWithinUnit ==
    out.called =>
        /\ \A k \in DOMAIN votes :
              /\ votes[k].signal = 0 => votes[k].score = 0
              /\ votes[k].score >= 0 /\ votes[k].score <= ScoreOne
        /\ out.signal = 0 => out.score = 0
        /\ out.score >= 0 /\ out.score <= ScoreOne

\* C18 witness: a bar where one strategy abstained and the others decided,
\* with a combined score strictly between 0 and 1.
C18_Witness ==
    /\ Voted
    /\ \E k \in DOMAIN votes : votes[k].signal = 0
    /\ out.signal # 0
    /\ out.score > 0
    /\ out.score < ScoreOne

\* C22: generate_signals returns a frame only under a valid configuration:
\* tie_break_method is one of the five methods, and active_strategy (single
\* mode) and every entry of enabled_strategies (combined mode) is registered;
\* otherwise it raises at entry and substitutes nothing.
ValidConfig(s) ==
    /\ s.tie_break_method \in TieMethods
    /\ s.active_strategy \in Registered
    /\ \A j \in DOMAIN s.enabled_strategies :
          s.enabled_strategies[j] \in Registered

C22_InvalidConfigRaises == out.called => ValidConfig(st)

\* C27: on every bar that is not a tie and whose combined signal is
\* non-zero, the combined score is the arithmetic mean of the scores of
\* exactly the strategies that voted in the winning direction.
C27_ScoreIsMeanOfWinners ==
    (Voted /\ ~IsTie /\ out.signal # 0) =>
        /\ VotesFor(out.signal) >= 1
        /\ out.score * VotesFor(out.signal)
             = SideScoreSum(DOMAIN votes, out.signal)
        /\ locals.score = out.score

\* C27 witness: a decisive non-tie bar with two winners of different scores,
\* a dissenting vote with a score of its own and a neutral strategy.
C27_Witness ==
    /\ Voted /\ ~IsTie /\ out.signal = 1
    /\ VotesFor(1) = 2 /\ VotesFor(-1) = 1 /\ VotesFor(0) = 1
    /\ \E k \in DOMAIN votes, h \in DOMAIN votes :
          /\ votes[k].signal = 1 /\ votes[h].signal = 1
          /\ votes[k].score # votes[h].score
    /\ \E k \in DOMAIN votes : votes[k].signal = -1 /\ votes[k].score > 0

\* ------------------------------------- further claims on run_backtest
\* C26: a TradeRecord goes from OPEN to CLOSED at most once: the record a
\* bar closes is the OPEN one created when the position held was opened,
\* its exit fields are written in that step, and a CLOSED record never
\* changes again; no record is removed.
C26_ClosedOnceAndFrozen ==
    [][ /\ Len(trade_history') >= Len(trade_history)
        /\ \A i \in DOMAIN trade_history :
              LET t == trade_history[i]
                  u == trade_history'[i]
              IN  /\ t.status = "CLOSED" => u = t
                  /\ (t.status = "OPEN" /\ u # t) =>
                        /\ position # 0
                        /\ t.trade_id = trade_counter
                        /\ t.entry_price = entry
                        /\ t.entry_time = entry_time
                        /\ t.units = units
                        /\ t.side = (IF position = 1 THEN "LONG" ELSE "SHORT")
                        /\ u.status = "CLOSED"
                        /\ u.exit_time = bar'
                        /\ u.exit_price # None
                        /\ u.exit_reason \in {"SL", "TP"}
                        /\ u = [ t EXCEPT !.exit_time = u.exit_time,
                                          !.exit_price = u.exit_price,
                                          !.pnl = u.pnl, !.pnl_pct = u.pnl_pct,
                                          !.exit_reason = u.exit_reason,
                                          !.status = "CLOSED" ]
      ]_vars

\* C26 witness: two records closed in turn, the first one closed before the
\* second was opened, and a bar after the last exit.
C26_Witness ==
    /\ Len(trade_history) = 2
    /\ trade_history[1].status = "CLOSED"
    /\ trade_history[2].status = "CLOSED"
    /\ trade_history[1].exit_time <= trade_history[2].entry_time
    /\ trade_history[2].exit_time = bar

\* C28: over a frame of generate_signals an exit is taken against the sl
\* and tp of the bar it happens on: no record is closed on a bar whose
\* signal is 0, and every bar that closes one carries a non-zero signal, the
\* exit price being that bar's sl or tp.
C28_ExitsOnlyOnSignalBars ==
    [][ bar' = bar + 1 =>
          /\ row'.signal = 0 =>
                /\ ClosedSet(trade_history') = ClosedSet(trade_history)
                /\ position # 0 => position' = position
          /\ \A i \in ClosedSet(trade_history') \ ClosedSet(trade_history) :
                /\ row'.signal # 0
                /\ \/ /\ trade_history'[i].exit_reason = "SL"
                      /\ trade_history'[i].exit_price = row'.sl
                   \/ /\ trade_history'[i].exit_reason = "TP"
                      /\ trade_history'[i].exit_price = row'.tp
      ]_vars

\* C28 witness: a position held through a bar of signal 0 and closed on a
\* later bar, at that bar's sl.
C28_Witness ==
    /\ bar = 3
    /\ Len(trade_history) >= 1
    /\ trade_history[1].entry_time = 1
    /\ trade_history[1].exit_time = 3
    /\ row.signal # 0
    /\ trade_history[1].exit_price = row.sl
    /\ trade_history[1].exit_price # trade_history[1].sl

\* C29: at the end of every bar position is non-zero exactly when there is
\* one OPEN TradeRecord; that record is the last one appended, its trade_id
\* is trade_counter, and its side is LONG for position 1, SHORT for -1.
C29_PositionMatchesOpenRecord ==
    LET n == Len(trade_history)
    IN  /\ position # 0 <=> Cardinality(OpenTrades(trade_history)) = 1
        /\ position = 0 => OpenTrades(trade_history) = {}
        /\ position # 0 =>
              /\ OpenTrades(trade_history) = {n}
              /\ trade_history[n].trade_id = trade_counter
              /\ trade_history[n].side
                   = (IF position = 1 THEN "LONG" ELSE "SHORT")

\* C29 witness: a second position, SHORT, open after the first was closed.
C29_Witness ==
    /\ position = -1
    /\ Len(trade_history) = 2
    /\ trade_history[1].status = "CLOSED"
    /\ trade_history[2].status = "OPEN"
    /\ trade_counter = 2

\* --------------------------------------------------- claims on get_signals
\* C23: on every decisive bar get_signals returns, strategy_votes holds
\* exactly the strategies whose votes generate_signals used, each with the
\* signal and (rounded) score it used, and long_votes, short_votes and
\* neutral_votes are the tallies of those votes.
C23_ExposedVotesAreThoseUsed ==
    (api.called /\ ~api.failed /\ api.signal # 0) =>
        /\ DOMAIN api.strategy_votes = DOMAIN votes
        /\ \A k \in DOMAIN votes :
              /\ api.strategy_votes[k].signal = votes[k].signal
              /\ api.strategy_votes[k].score = Round4(votes[k].score)
        /\ api.long_votes = VotesFor(1)
        /\ api.short_votes = VotesFor(-1)
        /\ api.neutral_votes = VotesFor(0)

\* ------------------------------------------- claims on run_backtest_for_api
\* C24: the equity curve run_backtest_for_api returns has at most 100
\* points whatever the length of the history, and they are the points at
\* indices 0, N, 2N, ... with N = max(1, total_points div 100), in order.
C24_AtMostHundredPoints ==
    LET N == IF total_points \div 100 > 1 THEN total_points \div 100 ELSE 1
    IN  /\ Len(equity_simplified) <= 100
        /\ \A k \in DOMAIN equity_simplified :
              equity_simplified[k] = (k - 1) * N
        /\ \A i \in 0..(total_points - 1) :
              i % N = 0 => \E k \in DOMAIN equity_simplified :
                               equity_simplified[k] = i

\* -------------------------------------------------- claims on get_backtest
\* C30: a custom capital or risk_pct changes the configuration of its own
\* request only: the loaded configuration stays as it was, and a request
\* without the parameter runs with the capital and risk_pct originally
\* loaded, whatever requests came before it.
C30_CustomValuesStayInRequest ==
    /\ cfg.risk = LoadedRisk
    /\ response.served >= 1 =>
          /\ response.capital = None =>
                response.ran_with.capital = LoadedRisk.capital
          /\ response.risk_pct = None =>
                response.ran_with.risk_pct = LoadedRisk.risk_pct

\* ------------------------------- claims on run_backtest over a raw frame
\* C21: run_backtest never opens a position, nor creates a TradeRecord,
\* whose sl or tp is undefined (NaN): a bar with a non-zero signal and a
\* missing sl or tp stops the run with an error instead.
C21_NoTradeWithUndefinedStops ==
    /\ \A i \in DOMAIN trade_history :
          trade_history[i].sl # NaN /\ trade_history[i].tp # NaN
    /\ position # 0 => (current_sl # NaN /\ current_tp # NaN)

====
